---- MODULE Spec2Model ----
(***************************************************************************)
(* Shapes, ray intersection, Phong lighting and the projectile of           *)
(* The_Ray_Tracer_Challenge (src/src/shape.rs, sphere.rs, plane.rs,         *)
(* material.rs, utils.rs, projectile.rs).                                   *)
(*                                                                         *)
(* f64 is modelled as decimal fixed point: the integer n stands for the    *)
(* number n / Q, Q = 10^6, results of * and / and sqrt are rounded toward  *)
(* zero.  NaN and the two infinities are kept as distinct values with the  *)
(* IEEE-754 rules (NaN compares false with everything, 0/0 = NaN, ...).    *)
(* A result of magnitude MaxF or more overflows to an infinity, as an f64  *)
(* result beyond f64::MAX does.  Signed zero is not modelled.              *)
(***************************************************************************)
EXTENDS Integers, Sequences, FiniteSets, TLC

VARIABLES
    shape,      \* the shape the calls are made on
    lastSet,    \* the matrix the shape was constructed with or last given by set_transform
    args,       \* the arguments of the pending call of an object-space or lighting function
    out,        \* the last call made and what it returned
    env,        \* the Environment: gravity, wind and the projectile
    env0,       \* the Environment as it was constructed
    ticks       \* the number of calls of tick made on env

vars == <<shape, lastSet, args, out, env, env0, ticks>>

\* the variables of the projectile, which no call on a shape or a material touches
envVars == <<env, env0, ticks>>

---------------------------------------------------------------------------
(* f64 *)

\* one unit of the grid is 1/Q
Q == 1000000
K == 1000

NaN == 2147483646
PInf == 2147483647
NInf == -2147483647

\* the finite numbers are those of magnitude below MaxF / Q = 1000
MaxF == 1000 * Q

F(n) == n * Q

Sat(n) == IF n >= MaxF THEN PInf ELSE IF n <= -MaxF THEN NInf ELSE n

IsNaN(a) == a = NaN
IsInf(a) == a = PInf \/ a = NInf
IsFinite(a) == ~IsNaN(a) /\ ~IsInf(a)

AbsInt(n) == IF n < 0 THEN -n ELSE n
SgnInt(n) == IF n < 0 THEN -1 ELSE IF n > 0 THEN 1 ELSE 0

FNeg(a) ==
    IF a = NaN THEN NaN
    ELSE IF a = PInf THEN NInf
    ELSE IF a = NInf THEN PInf
    ELSE -a

FAbs(a) ==
    IF a = NaN THEN NaN
    ELSE IF IsInf(a) THEN PInf
    ELSE AbsInt(a)

FAdd(a, b) ==
    IF a = NaN \/ b = NaN THEN NaN
    ELSE IF IsInf(a) THEN (IF IsInf(b) /\ b # a THEN NaN ELSE a)
    ELSE IF IsInf(b) THEN b
    ELSE Sat(a + b)

FSub(a, b) == FAdd(a, FNeg(b))

\* floor(a * b / Q) for finite a, b >= 0, without leaving 32 bits; PInf on overflow
MulMag(a, b) ==
    LET ah == a \div K
        al == a % K
        bh == b \div K
        bl == b % K
        mid == ah * bl + al * bh
        low == al * bl
    IN  IF ah > 0 /\ bh > MaxF \div ah THEN PInf
        ELSE Sat(ah * bh + (mid \div K) + (((mid % K) * K + low) \div Q))

\* (a * b) mod Q for finite a, b >= 0: the part MulMag rounds away
MulRem(a, b) ==
    LET ah == a \div K
        al == a % K
        bh == b \div K
        bl == b % K
        mid == ah * bl + al * bh
        low == al * bl
    IN  ((mid % K) * K + low) % Q

FMul(a, b) ==
    IF a = NaN \/ b = NaN THEN NaN
    ELSE IF IsInf(a) \/ IsInf(b)
         THEN (IF a = 0 \/ b = 0 THEN NaN
               ELSE IF SgnInt(a) * SgnInt(b) > 0 THEN PInf ELSE NInf)
    ELSE IF a = 0 \/ b = 0 THEN 0
    ELSE LET m == MulMag(AbsInt(a), AbsInt(b))
         IN  IF SgnInt(a) * SgnInt(b) < 0 THEN FNeg(m) ELSE m

RECURSIVE Pow10(_)
Pow10(n) == IF n = 0 THEN 1 ELSE 10 * Pow10(n - 1)

\* the n decimal digits after the point of r / b, 0 <= r < b
RECURSIVE DivDigits(_, _, _)
DivDigits(r, b, n) ==
    IF n = 0 THEN 0
    ELSE ((r * 10) \div b) * Pow10(n - 1) + DivDigits((r * 10) % b, b, n - 1)

\* floor(a * Q / b) for finite a >= 0, b > 0; PInf on overflow.  A divisor too
\* large for the digit loop is first cut by one digit, with the dividend.
RECURSIVE DivMag(_, _)
DivMag(a, b) ==
    IF b > 200000000 THEN DivMag(a \div 10, b \div 10)
    ELSE IF a \div b >= MaxF \div Q THEN PInf
    ELSE (a \div b) * Q + DivDigits(a % b, b, 6)

FDiv(a, b) ==
    IF a = NaN \/ b = NaN THEN NaN
    ELSE IF IsInf(a)
         THEN (IF IsInf(b) THEN NaN
               ELSE IF SgnInt(a) * (IF b < 0 THEN -1 ELSE 1) > 0 THEN PInf ELSE NInf)
    ELSE IF IsInf(b) THEN 0
    ELSE IF b = 0
         THEN (IF a = 0 THEN NaN ELSE IF a > 0 THEN PInf ELSE NInf)
    ELSE LET d == DivMag(AbsInt(a), AbsInt(b))
         IN  IF SgnInt(a) * SgnInt(b) < 0 THEN FNeg(d) ELSE d

\* s * s <= a * Q, for finite s, a >= 0
SqLe(s, a) ==
    LET sq == MulMag(s, s)
    IN  sq < a \/ (sq = a /\ MulRem(s, s) = 0)

\* the largest s in lo .. hi - 1 with s * s <= a * Q, given SqLe(lo, a), ~SqLe(hi, a)
RECURSIVE SqrtSearch(_, _, _)
SqrtSearch(a, lo, hi) ==
    IF hi - lo <= 1 THEN lo
    ELSE LET mid == lo + ((hi - lo) \div 2)
         IN  IF SqLe(mid, a) THEN SqrtSearch(a, mid, hi) ELSE SqrtSearch(a, lo, mid)

FSqrt(a) ==
    IF a = NaN THEN NaN
    ELSE IF a = PInf THEN PInf
    ELSE IF a < 0 THEN NaN
    ELSE SqrtSearch(a, 0, a + Q + 1)

\* x^n for a finite x and an integer n >= 0, by squaring
RECURSIVE PowInt(_, _)
PowInt(x, n) ==
    IF n = 0 THEN Q
    ELSE IF n % 2 = 1 THEN FMul(x, PowInt(x, n - 1))
    ELSE LET h == PowInt(x, n \div 2) IN FMul(h, h)

\* f64::powf with an integer-valued finite exponent y >= 0
FPowf(x, y) == IF x = NaN \/ y = NaN THEN NaN ELSE PowInt(x, y \div Q)

FLt(a, b) == a # NaN /\ b # NaN /\ a < b
FLe(a, b) == a # NaN /\ b # NaN /\ a <= b
FGt(a, b) == a # NaN /\ b # NaN /\ a > b
FGe(a, b) == a # NaN /\ b # NaN /\ a >= b
FEq(a, b) == a # NaN /\ b # NaN /\ a = b

---------------------------------------------------------------------------
(* outcomes of a call: a value, or a panic that unwinds the caller *)

Ok(v) == [ok |-> TRUE, val |-> v]
Panic == [ok |-> FALSE]

---------------------------------------------------------------------------
(* Tuple, Color, Ray, Light, Intersection *)

Tuple(x, y, z, w) == [x |-> x, y |-> y, z |-> z, w |-> w]
point(x, y, z) == Tuple(x, y, z, F(1))
vector(x, y, z) == Tuple(x, y, z, 0)

TAdd(a, b) == Tuple(FAdd(a.x, b.x), FAdd(a.y, b.y), FAdd(a.z, b.z), FAdd(a.w, b.w))
TSub(a, b) == Tuple(FSub(a.x, b.x), FSub(a.y, b.y), FSub(a.z, b.z), FSub(a.w, b.w))
TNeg(a) == Tuple(FNeg(a.x), FNeg(a.y), FNeg(a.z), FNeg(a.w))
TScale(a, k) == Tuple(FMul(a.x, k), FMul(a.y, k), FMul(a.z, k), FMul(a.w, k))

Dot(a, b) ==
    FAdd(FAdd(FAdd(FMul(a.x, b.x), FMul(a.y, b.y)), FMul(a.z, b.z)), FMul(a.w, b.w))

\* sqrt of the sum of the squares of x, y, z; w is ignored
Magnitude(a) == FSqrt(FAdd(FAdd(FMul(a.x, a.x), FMul(a.y, a.y)), FMul(a.z, a.z)))

\* What normalize does with a zero-length vector: it fails, or it scales by
\* 1/0 all the same (every component of the result is then NaN or infinite).
ZeroNormalize == {"fail", "scale"}

\* scale by 1 / magnitude
Normalize(a, nz) ==
    LET mag == Magnitude(a)
    IN  IF FEq(mag, 0) /\ nz = "fail" THEN Panic
        ELSE Ok(TScale(a, FDiv(F(1), mag)))

\* incident - normal * 2 * dot(incident, normal)
Reflect(in, n) == TSub(in, TScale(TScale(n, F(2)), Dot(in, n)))

Color(r, g, b) == [r |-> r, g |-> g, b |-> b]
black == Color(0, 0, 0)
CAdd(a, b) == Color(FAdd(a.r, b.r), FAdd(a.g, b.g), FAdd(a.b, b.b))
CMul(a, b) == Color(FMul(a.r, b.r), FMul(a.g, b.g), FMul(a.b, b.b))
CScale(a, k) == Color(FMul(a.r, k), FMul(a.g, k), FMul(a.b, k))

Light(position, intensity) == [position |-> position, intensity |-> intensity]
Ray(origin, direction) == [origin |-> origin, direction |-> direction]
Intersection(t, object) == [t |-> t, object |-> object]

---------------------------------------------------------------------------
(* Matrix: 4 rows of 4 numbers *)

I4 ==
    << <<F(1), 0, 0, 0>>, <<0, F(1), 0, 0>>, <<0, 0, F(1), 0>>, <<0, 0, 0, F(1)>> >>

get_translation_matrix(x, y, z) ==
    << <<F(1), 0, 0, x>>, <<0, F(1), 0, y>>, <<0, 0, F(1), z>>, <<0, 0, 0, F(1)>> >>

get_scaling_matrix(x, y, z) ==
    << <<x, 0, 0, 0>>, <<0, y, 0, 0>>, <<0, 0, z, 0>>, <<0, 0, 0, F(1)>> >>

\* rotation about z by a quarter turn: cos = 0, sin = 1
get_rotation_z_quarter ==
    << <<0, -F(1), 0, 0>>, <<F(1), 0, 0, 0>>, <<0, 0, F(1), 0>>, <<0, 0, 0, F(1)>> >>

Transpose(m) == [i \in 1..4 |-> [j \in 1..4 |-> m[j][i]]]

MatVec(m, t) ==
    LET row(i) ==
            FAdd(FAdd(FAdd(FMul(m[i][1], t.x), FMul(m[i][2], t.y)), FMul(m[i][3], t.z)),
                 FMul(m[i][4], t.w))
    IN  Tuple(row(1), row(2), row(3), row(4))

\* s without its i-th element
Without(s, i) == [k \in 1..(Len(s) - 1) |-> IF k < i THEN s[k] ELSE s[k + 1]]

\* determinant of the rows rs and columns cs of m, by cofactors of the first row
RECURSIVE DetSub(_, _, _)
RECURSIVE DetRow(_, _, _, _)
DetSub(m, rs, cs) ==
    IF Len(rs) = 2
    THEN FSub(FMul(m[rs[1]][cs[1]], m[rs[2]][cs[2]]), FMul(m[rs[1]][cs[2]], m[rs[2]][cs[1]]))
    ELSE DetRow(m, rs, cs, 1)
DetRow(m, rs, cs, j) ==
    IF j > Len(cs) THEN 0
    ELSE LET minor == DetSub(m, Tail(rs), Without(cs, j))
             cof == IF j % 2 = 1 THEN minor ELSE FNeg(minor)
         IN  FAdd(FMul(m[rs[1]][cs[j]], cof), DetRow(m, rs, cs, j + 1))

Determinant(m) == DetSub(m, <<1, 2, 3, 4>>, <<1, 2, 3, 4>>)

Cofactor(m, i, j) ==
    LET minor == DetSub(m, Without(<<1, 2, 3, 4>>, i), Without(<<1, 2, 3, 4>>, j))
    IN  IF (i + j) % 2 = 0 THEN minor ELSE FNeg(minor)

---------------------------------------------------------------------------
(* utils.rs *)

\* 1.0e-5, in units of 1/Q
EPSILON == 10

\* Compare::eq
ApproxEq(a, b) == FLt(FAbs(FSub(a, b)), EPSILON)

\* std::f64::EPSILON = 2.220446049250313e-16 lies strictly between 0 and one unit
\* of the grid, so for a number x of the grid, x < f64::EPSILON iff x < 1 unit.
F64_EPSILON == 1

---------------------------------------------------------------------------
(* Matrix::inverse: cofactors over the determinant; a matrix whose            *)
(* determinant is zero within the tolerance has no inverse and the call fails *)

IsInvertible(m) == ~ApproxEq(Determinant(m), 0)

Inverse(m) ==
    LET det == Determinant(m)
    IN  IF ~IsInvertible(m) THEN Panic
        ELSE Ok([i \in 1..4 |-> [j \in 1..4 |-> FDiv(Cofactor(m, j, i), det)]])

\* Ray::transform
RayTransform(r, m) == Ray(MatVec(m, r.origin), MatVec(m, r.direction))

---------------------------------------------------------------------------
(* material.rs *)

Material(color, ambient, diffuse, specular, shininess) ==
    [color |-> color, ambient |-> ambient, diffuse |-> diffuse,
     specular |-> specular, shininess |-> shininess]

MaterialDefault == Material(Color(F(1), F(1), F(1)), 100000, 900000, 900000, F(200))

\* Material::lighting.  The result carries, beside the colour, the vectors the
\* call handed to normalize, in order.
Lighting(self, light, hit_point, eyev, normalv, in_shadow, nz) ==
    LET effective_color == CMul(self.color, light.intensity)
        lightarg == TSub(light.position, hit_point)
        lightn == Normalize(lightarg, nz)
        lightv == lightn.val
        ambient == CScale(effective_color, self.ambient)
        light_dot_normal == Dot(lightv, normalv)
        reflectv == Reflect(TNeg(lightv), normalv)
        reflect_dot_eye == Dot(reflectv, eyev)
        factor == FPowf(reflect_dot_eye, self.shininess)
        lit == FGe(light_dot_normal, 0) /\ ~in_shadow
        diffuse ==
            IF lit THEN CScale(CScale(effective_color, self.diffuse), light_dot_normal)
            ELSE black
        specular ==
            IF lit /\ FGt(reflect_dot_eye, 0)
            THEN CScale(CScale(light.intensity, self.specular), factor)
            ELSE black
    IN  IF ~lightn.ok THEN [ok |-> FALSE, normalized |-> <<lightarg>>]
        ELSE [ok |-> TRUE, val |-> CAdd(CAdd(ambient, diffuse), specular),
              normalized |-> <<lightarg>>]

---------------------------------------------------------------------------
(* sphere.rs, plane.rs, shape.rs *)

\* Sphere::new
SphereNew(center, radius, transform, material) ==
    [kind |-> "Sphere", center |-> center, radius |-> radius,
     transform |-> transform, material |-> material]

SphereDefault == SphereNew(point(0, 0, 0), F(1), I4, MaterialDefault)

\* Plane::new
PlaneNew(transform) == [kind |-> "Plane", transform |-> transform]

PlaneDefault == PlaneNew(I4)

TestShapeDefault == [kind |-> "TestShape", transform |-> I4, material |-> MaterialDefault]

\* as set_transform, but the matrix is not stored
SetTransformIgnored(self, t) == self

\* Shape::set_transform of Sphere, Plane and TestShape
SetTransform(self, t) == [self EXCEPT !.transform = t]

\* Shape::get_transform of Sphere, Plane and TestShape
GetTransform(self) == self.transform

\* as Sphere::local_intersect, but a tangent ray (discriminant = 0) misses
SphereLocalIntersectStrict(self, ray) ==
    LET sphere_to_ray == TSub(ray.origin, self.center)
        a == Dot(ray.direction, ray.direction)
        b == FMul(F(2), Dot(ray.direction, sphere_to_ray))
        c == FSub(Dot(sphere_to_ray, sphere_to_ray), F(1))
        discriminant == FSub(FMul(b, b), FMul(FMul(F(4), a), c))
        t1 == FDiv(FSub(FNeg(b), FSqrt(discriminant)), FMul(F(2), a))
        t2 == FDiv(FAdd(FNeg(b), FSqrt(discriminant)), FMul(F(2), a))
    IN  IF FGt(discriminant, 0)
        THEN <<Intersection(t1, self), Intersection(t2, self)>>
        ELSE <<>>

\* as Sphere::local_intersect, but the root with + sqrt is pushed first
SphereLocalIntersectSwapped(self, ray) ==
    LET sphere_to_ray == TSub(ray.origin, self.center)
        a == Dot(ray.direction, ray.direction)
        b == FMul(F(2), Dot(ray.direction, sphere_to_ray))
        c == FSub(Dot(sphere_to_ray, sphere_to_ray), F(1))
        discriminant == FSub(FMul(b, b), FMul(FMul(F(4), a), c))
        t1 == FDiv(FSub(FNeg(b), FSqrt(discriminant)), FMul(F(2), a))
        t2 == FDiv(FAdd(FNeg(b), FSqrt(discriminant)), FMul(F(2), a))
    IN  IF FGe(discriminant, 0)
        THEN <<Intersection(t2, self), Intersection(t1, self)>>
        ELSE <<>>

\* Sphere::local_intersect
SphereLocalIntersect(self, ray) ==
    LET sphere_to_ray == TSub(ray.origin, self.center)
        a == Dot(ray.direction, ray.direction)
        b == FMul(F(2), Dot(ray.direction, sphere_to_ray))
        c == FSub(Dot(sphere_to_ray, sphere_to_ray), F(1))
        discriminant == FSub(FMul(b, b), FMul(FMul(F(4), a), c))
        t1 == FDiv(FSub(FNeg(b), FSqrt(discriminant)), FMul(F(2), a))
        t2 == FDiv(FAdd(FNeg(b), FSqrt(discriminant)), FMul(F(2), a))
    IN  IF FGe(discriminant, 0)
        THEN <<Intersection(t1, self), Intersection(t2, self)>>
        ELSE <<>>

\* Sphere::local_normal_at
SphereLocalNormalAt(self, p) == TSub(p, point(0, 0, 0))

\* as Plane::local_intersect, but origin.y is not negated
PlaneLocalIntersectNoNeg(self, local_ray) ==
    IF FLt(FAbs(local_ray.direction.y), F64_EPSILON) THEN <<>>
    ELSE LET t == FDiv(local_ray.origin.y, local_ray.direction.y)
         IN  <<Intersection(t, self)>>

\* Plane::local_intersect
PlaneLocalIntersect(self, local_ray) ==
    IF FLt(FAbs(local_ray.direction.y), F64_EPSILON) THEN <<>>
    ELSE LET t == FDiv(FNeg(local_ray.origin.y), local_ray.direction.y)
         IN  <<Intersection(t, self)>>

\* Plane::local_normal_at
PlaneLocalNormalAt(self, p) == vector(0, F(1), 0)

\* TestShape::local_intersect
TestShapeLocalIntersect(self, local_ray) == <<>>

\* TestShape::local_normal_at
TestShapeLocalNormalAt(self, p) == [p EXCEPT !.w = 0]

LocalIntersect(self, local_ray) ==
    CASE self.kind = "Sphere" -> SphereLocalIntersect(self, local_ray)
      [] self.kind = "Plane" -> PlaneLocalIntersect(self, local_ray)
      [] self.kind = "TestShape" -> TestShapeLocalIntersect(self, local_ray)

LocalNormalAt(self, p) ==
    CASE self.kind = "Sphere" -> SphereLocalNormalAt(self, p)
      [] self.kind = "Plane" -> PlaneLocalNormalAt(self, p)
      [] self.kind = "TestShape" -> TestShapeLocalNormalAt(self, p)

\* as Shape::intersect, but the ray is transformed by the transform itself
ShapeIntersectNoInverse(self, ray) ==
    Ok(LocalIntersect(self, RayTransform(ray, GetTransform(self))))

\* Shape::intersect
ShapeIntersect(self, ray) ==
    LET inv == Inverse(GetTransform(self))
    IN  IF ~inv.ok THEN Panic
        ELSE Ok(LocalIntersect(self, RayTransform(ray, inv.val)))

\* as Shape::normal_at, but world_normal.w is left as the product gave it
ShapeNormalAtKeepW(self, p, nz) ==
    LET inv == Inverse(GetTransform(self))
        local_point == MatVec(inv.val, p)
        local_normal == LocalNormalAt(self, local_point)
        product == MatVec(Transpose(inv.val), local_normal)
        world_normal == product
        res == Normalize(world_normal, nz)
    IN  IF ~inv.ok THEN [ok |-> FALSE]
        ELSE IF ~res.ok THEN [ok |-> FALSE, product |-> product, normalized |-> world_normal]
        ELSE [ok |-> TRUE, val |-> res.val, product |-> product, normalized |-> world_normal]

\* Shape::normal_at.  The result carries, beside the normal, the value of
\* world_normal before its w is set to 0 and the vector handed to normalize.
ShapeNormalAt(self, p, nz) ==
    LET inv == Inverse(GetTransform(self))
        local_point == MatVec(inv.val, p)
        local_normal == LocalNormalAt(self, local_point)
        product == MatVec(Transpose(inv.val), local_normal)
        world_normal == [product EXCEPT !.w = 0]
        res == Normalize(world_normal, nz)
    IN  IF ~inv.ok THEN [ok |-> FALSE]
        ELSE IF ~res.ok THEN [ok |-> FALSE, product |-> product, normalized |-> world_normal]
        ELSE [ok |-> TRUE, val |-> res.val, product |-> product, normalized |-> world_normal]

---------------------------------------------------------------------------
(* Projectile, Environment *)

Projectile(position, velocity) == [position |-> position, velocity |-> velocity]
Environment(gravity, wind, projectile) ==
    [gravity |-> gravity, wind |-> wind, projectile |-> projectile]

\* tick with the position moved by the velocity the tick has just computed
TickNewVelocity(self) ==
    LET new_velocity == TAdd(TAdd(self.projectile.velocity, self.gravity), self.wind)
        new_position == TAdd(self.projectile.position, new_velocity)
    IN  [self EXCEPT !.projectile = Projectile(new_position, new_velocity)]

\* Environment::tick: both sums are taken from the fields as they are on entry,
\* then both fields are assigned
Tick(self) ==
    LET new_position == TAdd(self.projectile.position, self.projectile.velocity)
        new_velocity == TAdd(TAdd(self.projectile.velocity, self.gravity), self.wind)
    IN  [self EXCEPT !.projectile = Projectile(new_position, new_velocity)]

---------------------------------------------------------------------------
(* inputs *)

\* world and local coordinates range over -MaxCoord .. MaxCoord
MaxCoord == 1
\* ray origins lie at z in -MaxZ .. MaxZ and y in 0 .. MaxY
MaxZ == 5
MaxY == 2
\* translations along y by 1 .. MaxShift
MaxShift == 2

MaterialOther == Material(Color(F(1), 200000, 500000), 300000, 700000, 200000, F(10))
Materials == {MaterialDefault, MaterialOther}

Singular == get_scaling_matrix(F(1), 0, F(1))
Transforms ==
    {I4, get_scaling_matrix(F(2), F(2), F(2)), get_scaling_matrix(F(1), 500000, F(1)),
     get_rotation_z_quarter, get_translation_matrix(F(2), F(3), F(4)), Singular}
    \cup {get_translation_matrix(0, F(k), 0) : k \in 1..MaxShift}

Centers == {point(0, 0, 0), point(F(1), 0, 0)}

\* Material::lighting
HitPoints == {point(0, 0, F(z)) : z \in 0..MaxCoord}
LightPositions ==
    {point(0, 0, -F(10)), point(0, F(10), -F(10)), point(0, 0, F(10))} \cup HitPoints
Intensities == {Color(F(1), F(1), F(1)), Color(500000, 250000, F(1))}
Eyes == {vector(0, 0, -F(1)), vector(0, 707106, -707106), vector(0, -707106, -707106)}
Normals == {vector(0, 0, -F(1)), vector(0, F(1), 0)}

\* Sphere::local_intersect, Sphere::local_normal_at
Directions ==
    {vector(0, 0, F(1)), vector(0, 0, -F(1)), vector(0, 0, F(2)), vector(0, F(1), F(1)),
     vector(F(1), F(1), F(1)), vector(0, 500000, 0), vector(0, 0, 0)}
Origins == {point(0, F(y), F(z)) : y \in 0..MaxY, z \in -MaxZ..MaxZ}
LocalPoints ==
    {point(F(x), F(y), 0) : x \in -MaxCoord..MaxCoord, y \in -MaxCoord..MaxCoord}
    \cup {point(577350, 577350, 577350)}

\* Plane::local_intersect: rays across the plane and in it (direction.y = 0), and
\* rays close to parallel, with direction.y a few units of 1e-6 around EPSILON;
\* these start within 0.0005 of the plane, so that t stays finite
PlaneDirectionYs == {0, 500000, F(1), -F(1), F(2)}
NearParallelYs == {1, -1, 5, 9, -9, 10, -10, 11, 100}
PlaneRays ==
    {Ray(point(F(x), F(y), 0), vector(0, dy, F(1))) :
        x \in 0..MaxCoord, y \in -MaxY..MaxY, dy \in PlaneDirectionYs}
    \cup {Ray(point(F(x), oy, 0), vector(0, dy, F(1))) :
        x \in 0..MaxCoord, oy \in {0, 500, -500}, dy \in NearParallelYs}

\* Shape::intersect, Shape::normal_at
WorldRays ==
    {Ray(point(0, F(y), -F(5)), vector(0, 0, F(1))) : y \in 0..MaxCoord}
    \cup {Ray(point(0, F(1), 0), vector(0, -F(1), 0))}
WorldPoints ==
    {point(0, F(y), 0) : y \in 0..MaxCoord}
    \cup {point(0, 1707106, -707106), point(0, 707106, -707106)}

\* Environment::tick: at most MaxTicks calls, on a projectile launched with a
\* speed of 0 .. MaxSpeed along x and y
MaxTicks == 4
MaxSpeed == 1

\* a projectile thrown up and forward from one unit above the ground, against
\* gravity of 0.1 and a head wind of 0.01
Launch ==
    Environment(vector(0, -100000, 0), vector(-10000, 0, 0),
                Projectile(point(0, F(1), 0), vector(F(1), F(1), 0)))

Gravities == {vector(0, -100000, 0), vector(0, -F(1), 0), vector(0, 0, 0)}
Winds == {vector(-10000, 0, 0), vector(F(1), 0, 500000), vector(0, 0, 0)}
Positions == {point(0, F(1), 0), point(0, 0, 0)}
\* the fields are pub Tuples: a velocity may be given with w = 1
Velocities ==
    {vector(F(x), F(y), 0) : x \in 0..MaxSpeed, y \in 0..MaxSpeed}
    \cup {vector(707106, 707106, 0), point(F(1), 0, 0)}
Environments ==
    {Environment(g, w, Projectile(p, v)) :
        g \in Gravities, w \in Winds, p \in Positions, v \in Velocities}

---------------------------------------------------------------------------
(* the operations *)

New == [op |-> "new"]
NoArgs == [fn |-> "none"]

\* s.set_transform(t)
DoSetTransform ==
    \E t \in Transforms :
        /\ shape' = SetTransform(shape, t)
        /\ lastSet' = t
        /\ out' = [op |-> "set_transform", t |-> t]
        /\ UNCHANGED <<args, envVars>>

\* s.get_transform()
DoGetTransform ==
    /\ out' = [op |-> "get_transform", val |-> GetTransform(shape)]
    /\ UNCHANGED <<shape, lastSet, args, envVars>>

\* s.material = m (Sphere::material is pub; shape.rs, assign_material)
DoAssignMaterial ==
    \E m \in Materials :
        /\ shape.kind # "Plane"
        /\ shape' = [shape EXCEPT !.material = m]
        /\ out' = [op |-> "assign_material", m |-> m]
        /\ UNCHANGED <<lastSet, args, envVars>>

\* s.intersect(ray)
DoIntersect ==
    \E ray \in WorldRays :
        /\ out' = [op |-> "intersect", ray |-> ray, res |-> ShapeIntersect(shape, ray)]
        /\ UNCHANGED <<shape, lastSet, args, envVars>>

\* s.normal_at(p)
DoNormalAt ==
    \E p \in WorldPoints, nz \in ZeroNormalize :
        /\ out' = [op |-> "normal_at", p |-> p, nz |-> nz, res |-> ShapeNormalAt(shape, p, nz)]
        /\ UNCHANGED <<shape, lastSet, args, envVars>>

\* s.local_intersect(args.ray)
DoLocalIntersect ==
    /\ args.fn = "local_intersect"
    /\ out = New
    /\ out' = [op |-> "local_intersect", ray |-> args.ray,
               res |-> LocalIntersect(shape, args.ray)]
    /\ UNCHANGED <<shape, lastSet, args, envVars>>

\* s.local_normal_at(args.p)
DoLocalNormalAt ==
    /\ args.fn = "local_normal_at"
    /\ out = New
    /\ out' = [op |-> "local_normal_at", p |-> args.p, res |-> LocalNormalAt(shape, args.p)]
    /\ UNCHANGED <<shape, lastSet, args, envVars>>

\* args.material.lighting(args.light, args.hit_point, args.eyev, args.normalv, args.in_shadow)
DoLighting ==
    /\ args.fn = "lighting"
    /\ out = New
    /\ out' = [op |-> "lighting",
               res |-> Lighting(args.material, args.light, args.hit_point, args.eyev,
                                args.normalv, args.in_shadow, args.nz)]
    /\ UNCHANGED <<shape, lastSet, args, envVars>>

\* env.tick()
DoTick ==
    /\ ticks < MaxTicks
    /\ env' = Tick(env)
    /\ ticks' = ticks + 1
    /\ out' = [op |-> "tick"]
    /\ UNCHANGED <<shape, lastSet, args, env0>>

---------------------------------------------------------------------------
(* the specifications *)

\* no tick has been made on the environment
NotTicked ==
    /\ env = Launch
    /\ env0 = env
    /\ ticks = 0

\* the shapes as constructed, each with the transform its constructor was given
Constructed ==
    {<<SphereDefault, I4>>, <<PlaneDefault, I4>>, <<TestShapeDefault, I4>>,
     <<SphereNew(point(0, 0, 0), F(1), Singular, MaterialOther), Singular>>,
     <<PlaneNew(get_translation_matrix(0, F(1), 0)), get_translation_matrix(0, F(1), 0)>>}

\* a shape as constructed, then any sequence of calls of the Shape trait
Init ==
    /\ \E c \in Constructed : shape = c[1] /\ lastSet = c[2]
    /\ args = NoArgs
    /\ out = New
    /\ NotTicked

Next ==
    \/ DoSetTransform
    \/ DoGetTransform
    \/ DoAssignMaterial
    \/ DoIntersect
    \/ DoNormalAt

Spec == Init /\ [][Next]_vars

\* Material::lighting, once, on each input
LightingArgs ==
    [fn : {"lighting"}, material : Materials,
     light : {Light(lp, li) : lp \in LightPositions, li \in Intensities},
     hit_point : HitPoints, eyev : Eyes, normalv : Normals,
     in_shadow : BOOLEAN, nz : ZeroNormalize]

InitLighting ==
    /\ shape = SphereDefault
    /\ lastSet = shape.transform
    /\ args \in LightingArgs
    /\ out = New
    /\ NotTicked

NextLighting == DoLighting

SpecLighting == InitLighting /\ [][NextLighting]_vars

\* a sphere as Sphere::new makes it, and one call in object space
InitSphere ==
    /\ shape \in {SphereNew(c, F(1), I4, MaterialDefault) : c \in Centers}
    /\ lastSet = shape.transform
    /\ args \in [fn : {"local_intersect"}, ray : {Ray(o, d) : o \in Origins, d \in Directions}]
                \cup [fn : {"local_normal_at"}, p : LocalPoints]
    /\ out = New
    /\ NotTicked

NextSphere == DoLocalIntersect \/ DoLocalNormalAt

SpecSphere == InitSphere /\ [][NextSphere]_vars

\* a plane, and one call in object space
InitPlane ==
    /\ shape \in {PlaneNew(t) : t \in {I4, get_translation_matrix(0, F(1), 0)}}
    /\ lastSet = shape.transform
    /\ args \in [fn : {"local_intersect"}, ray : PlaneRays]
                \cup [fn : {"local_normal_at"}, p : LocalPoints]
    /\ out = New
    /\ NotTicked

NextPlane == DoLocalIntersect \/ DoLocalNormalAt

SpecPlane == InitPlane /\ [][NextPlane]_vars

\* an Environment as constructed, then any number of ticks
InitProjectile ==
    /\ shape = SphereDefault
    /\ lastSet = shape.transform
    /\ args = NoArgs
    /\ out = New
    /\ env \in Environments
    /\ env0 = env
    /\ ticks = 0

NextProjectile == DoTick

SpecProjectile == InitProjectile /\ [][NextProjectile]_vars

---------------------------------------------------------------------------
(* the properties *)

IsZeroLength(v) == FEq(Magnitude(v), 0)

\* the ambient term of the lighting call: color * intensity * ambient
AmbientTerm == CScale(CMul(args.material.color, args.light.intensity), args.material.ambient)

\* the light is behind the surface: dot(normalize(light.position - hit_point), normal) < 0
LightBehind ==
    LET lv == TSub(args.light.position, args.hit_point)
    IN  ~IsZeroLength(lv) /\ FLt(Dot(Normalize(lv, "scale").val, args.normalv), 0)

C2_ShadowSkipsNormalize ==
    (out.op = "lighting" /\ args.in_shadow)
        => \A i \in DOMAIN out.res.normalized : ~IsZeroLength(out.res.normalized[i])

\* the quadratic of the ray against the unit sphere at center
QuadA(ray) == Dot(ray.direction, ray.direction)
QuadB(center, ray) == FMul(F(2), Dot(ray.direction, TSub(ray.origin, center)))
QuadC(center, ray) == FSub(Dot(TSub(ray.origin, center), TSub(ray.origin, center)), F(1))
QuadDisc(center, ray) ==
    FSub(FMul(QuadB(center, ray), QuadB(center, ray)),
         FMul(FMul(F(4), QuadA(ray)), QuadC(center, ray)))

NonZeroDirection(ray) == ray.direction # vector(0, 0, 0)

C4_NormalFromCenter ==
    (out.op = "local_normal_at" /\ shape.kind = "Sphere")
        => out.res = TSub(args.p, shape.center)

\* C5: Plane::local_intersect returns nothing for every ray whose direction.y has
\* magnitude below utils::EPSILON, whatever the origin.
C5_ParallelWithinEpsilon ==
    (out.op = "local_intersect" /\ shape.kind = "Plane"
        /\ FLt(FAbs(args.ray.direction.y), EPSILON))
        => out.res = <<>>

\* C6: for a ray not parallel to the plane (direction.y of magnitude EPSILON or
\* more), Plane::local_intersect returns one Intersection, of the plane itself,
\* with t = -origin.y / direction.y, negative when the plane is behind the origin.
C6_SingleHit ==
    (out.op = "local_intersect" /\ shape.kind = "Plane"
        /\ FGe(FAbs(args.ray.direction.y), EPSILON))
        => LET oy == args.ray.origin.y
               dy == args.ray.direction.y
           IN  /\ Len(out.res) = 1
               /\ out.res[1].t = FDiv(FNeg(oy), dy)
               /\ out.res[1].object = shape
               /\ ((oy > 0 /\ dy > 0) \/ (oy < 0 /\ dy < 0)) => FLt(out.res[1].t, 0)

\* the plane is behind the origin of the ray: origin.y = 1, direction.y = 1, t = -1
C6_PlaneBehind ==
    /\ out.op = "local_intersect"
    /\ shape.kind = "Plane"
    /\ args.ray.origin.y = F(1)
    /\ args.ray.direction.y = F(1)
    /\ Len(out.res) = 1
    /\ out.res[1].t = -F(1)

C8_NormalWZero ==
    (out.op = "normal_at" /\ IsInvertible(shape.transform) /\ out.res.ok)
        => out.res.val.w = 0

\* C8 amended: for an invertible transform and every world point at which the
\* vector handed to normalize has non-zero length, normal_at returns a vector
\* with w = 0, whatever w the product with the transposed inverse had.
C8_NormalWZeroNonDegenerate ==
    (out.op = "normal_at" /\ IsInvertible(shape.transform)
        /\ ~IsZeroLength(out.res.normalized))
        => (out.res.ok /\ out.res.val.w = 0)

\* a translated shape: the product has w # 0, the normal returned has w = 0
C8_TranslatedW ==
    /\ out.op = "normal_at"
    /\ IsInvertible(shape.transform)
    /\ out.res.ok
    /\ ~IsZeroLength(out.res.normalized)
    /\ out.res.product.w # 0
    /\ out.res.val.w = 0

\* C9: for a ray of non-zero direction the entries Sphere::local_intersect
\* returns are (-b - sqrt(disc)) / 2a, then (-b + sqrt(disc)) / 2a, in ascending
\* order of t, also when both are negative.
C9_Ascending ==
    (out.op = "local_intersect" /\ shape.kind = "Sphere" /\ NonZeroDirection(args.ray)
        /\ Len(out.res) # 0)
        => LET a == QuadA(args.ray)
               b == QuadB(shape.center, args.ray)
               root == FSqrt(QuadDisc(shape.center, args.ray))
           IN  /\ Len(out.res) = 2
               /\ out.res[1].t = FDiv(FSub(FNeg(b), root), FMul(F(2), a))
               /\ out.res[2].t = FDiv(FAdd(FNeg(b), root), FMul(F(2), a))
               /\ FLe(out.res[1].t, out.res[2].t)

\* both roots negative and distinct: the sphere is behind the ray
C9_BothNegative ==
    /\ out.op = "local_intersect"
    /\ shape.kind = "Sphere"
    /\ NonZeroDirection(args.ray)
    /\ Len(out.res) = 2
    /\ FLt(out.res[1].t, out.res[2].t)
    /\ FLt(out.res[2].t, 0)

\* what a step of set_transform, and of the calls that take &self, may change
TransformFrame ==
    /\ out'.op = "set_transform"
           => (shape'.transform = out'.t /\ shape' = [shape EXCEPT !.transform = out'.t])
    /\ out'.op \in {"get_transform", "intersect", "normal_at"} => shape' = shape
    /\ out'.op = "get_transform" => out'.val = lastSet

\* C10: get_transform returns the matrix of the most recent set_transform (the
\* constructor's, the identity for a default shape, if there was none);
\* set_transform changes no other field; intersect, normal_at and get_transform
\* leave the transform alone.
C10_TransformFrame ==
    /\ [](GetTransform(shape) = lastSet)
    /\ [][TransformFrame]_vars

\* a transform set, the material assigned after it, and the transform read back
C10_ReadBack ==
    /\ out.op = "get_transform"
    /\ out.val = get_translation_matrix(F(2), F(3), F(4))
    /\ shape.kind = "Sphere"
    /\ shape.material = MaterialOther
    /\ shape.center = point(0, 0, 0)

\* what one tick does: the position moves by the velocity held before the tick,
\* the velocity gains gravity + wind, gravity and wind stay
TickStep ==
    ticks' # ticks
        => /\ env'.projectile.position = TAdd(env.projectile.position, env.projectile.velocity)
           /\ env'.projectile.velocity =
                  TAdd(env.projectile.velocity, TAdd(env.gravity, env.wind))
           /\ env'.gravity = env.gravity
           /\ env'.wind = env.wind

\* after n ticks: velocity = v0 + n * (gravity + wind) and
\* position = p0 + n * v0 + (n * (n - 1) / 2) * (gravity + wind)
ClosedForm ==
    LET n == ticks
        v0 == env0.projectile.velocity
        p0 == env0.projectile.position
        gw == TAdd(env0.gravity, env0.wind)
    IN  /\ env.gravity = env0.gravity
        /\ env.wind = env0.wind
        /\ env.projectile.velocity = TAdd(v0, TScale(gw, F(n)))
        /\ env.projectile.position =
               TAdd(TAdd(p0, TScale(v0, F(n))), TScale(gw, F((n * (n - 1)) \div 2)))

\* C11: each Environment::tick moves the position of the projectile by the
\* velocity held before the tick and then adds gravity + wind to the velocity,
\* leaving gravity and wind unchanged; hence after n ticks velocity =
\* v0 + n * (gravity + wind) and position = p0 + n * v0 + (n * (n - 1) / 2) *
\* (gravity + wind).
C11_Tick ==
    /\ []ClosedForm
    /\ [][TickStep]_vars

\* three ticks after the launch: the projectile is at (2.97, 3.7, 0), moving by
\* (0.97, 0.7, 0)
C11_ThreeTicks ==
    /\ ticks = 3
    /\ env0 = Launch
    /\ env.gravity = Launch.gravity
    /\ env.wind = Launch.wind
    /\ env.projectile.position = point(2970000, 3700000, 0)
    /\ env.projectile.velocity = vector(970000, 700000, 0)
====
